---- MODULE Spec2Model ----
(***************************************************************************)
(* Dispatch backend: record store access (database.py), call-initiation    *)
(* builder (vapi_handler.py) and the HTTP handlers assign_load, make_call  *)
(* and vapi_webhook (main.py).                                             *)
(*                                                                         *)
(* Python values: None is the string "None"; a dict is a function whose    *)
(* domain is its set of keys (an absent key is not in the domain); a str   *)
(* that the code slices or filters (a phone number) is a sequence of       *)
(* one-character strings, the empty sequence standing for both None and    *)
(* "" (the code only tests such values for truthiness).                    *)
(***************************************************************************)
EXTENDS Integers, Sequences, FiniteSets, TLC

VARIABLES drivers,        \* table drivers: id -> [phone, is_loaded, current_location]
          loads,          \* table loads: id -> [status, assigned_driver_id, driver_response]
          driver_status,  \* table driver_status: sequence of inserted rows
          call_logs,      \* table call_logs: sequence of inserted rows
          vapi_calls,     \* requests submitted to POST {VAPI_BASE_URL}/call/phone,
                          \* each with the answer the provider gave
          routing,        \* environment: which routing scheme is configured
          req,            \* the request handled last
          resp,           \* the response returned to it
          lookups,        \* the phones passed to get_driver_by_phone while handling it
          failed,         \* the tables on which a write failed while handling it
          resolved,       \* the driver id the webhook handler resolved, or None
          formatted,      \* the results of successive phone normalizations
          writes,         \* the store functions called while handling the last request
          inflight,       \* assign_load requests in progress: id -> [pc, body, driver, load]
          nreq            \* number of requests handled so far

vars == <<drivers, loads, driver_status, call_logs, vapi_calls, routing,
          req, resp, lookups, failed, resolved, formatted, writes, inflight, nreq>>

store == <<drivers, loads, driver_status, call_logs>>

None == "None"

----------------------------------------------------------------------------
(* Bounds of the model *)

MaxReq == 2         \* requests handled in one behaviour
MaxHead == 3        \* length of the varying head of a normalized phone number

----------------------------------------------------------------------------
(* dict helpers *)

\* d.get(k, dflt)
Get(d, k, dflt) == IF k \in DOMAIN d THEN d[k] ELSE dflt

\* the dicts that either lack key k or bind it to a value of S
OptKey(k, S) == {<<>>} \cup {k :> v : v \in S}

\* Python truthiness of an id-like value (None and "" are falsy)
Truthy(v) == v # None /\ v # ""

----------------------------------------------------------------------------
(* strings as sequences of characters *)

Digits == {"0", "1", "2", "3", "4", "5", "6", "7", "8", "9"}

\* s.startswith(p)
StartsWith(s, p) == Len(s) >= Len(p) /\ SubSeq(s, 1, Len(p)) = p

\* s[n:]
DropFirst(s, n) == SubSeq(s, n + 1, Len(s))

IsDigit(c) == c \in Digits

CountryCodeLen == 12    \* len('91' + ten digits)
LocalLen == 10
TrunkLen == 11          \* len('0' + ten digits)

\* the first branch tests the prefix '91' without the length
format_indian_phone_number_prefix_only(phone) ==
    LET d == SelectSeq(phone, IsDigit)
    IN  IF StartsWith(d, <<"9", "1">>) THEN <<"+">> \o d
        ELSE IF Len(d) = LocalLen THEN <<"+", "9", "1">> \o d
        ELSE IF StartsWith(d, <<"0">>) /\ Len(d) = TrunkLen
             THEN <<"+", "9", "1">> \o DropFirst(d, 1)
        ELSE IF ~StartsWith(d, <<"+">>) THEN <<"+">> \o d ELSE d

format_indian_phone_number(phone) ==
    LET d == SelectSeq(phone, IsDigit)
    IN  IF StartsWith(d, <<"9", "1">>) /\ Len(d) = CountryCodeLen THEN <<"+">> \o d
        ELSE IF Len(d) = LocalLen THEN <<"+", "9", "1">> \o d
        ELSE IF StartsWith(d, <<"0">>) /\ Len(d) = TrunkLen
             THEN <<"+", "9", "1">> \o DropFirst(d, 1)
        ELSE IF ~StartsWith(d, <<"+">>) THEN <<"+">> \o d ELSE d

----------------------------------------------------------------------------
(* Record store access (database.py).  A store operation works on          *)
(* st = [drivers, loads, driver_status, call_logs, raised, failed]: the    *)
(* four tables, whether the operation raised, and the tables on which a    *)
(* write request of this HTTP request failed.  fail is the set of tables   *)
(* whose write requests the store answers with an error.                   *)

Tables == {"drivers", "loads", "driver_status", "call_logs"}

Raise(st, table) == [st EXCEPT !.raised = TRUE, !.failed = @ \cup {table}]

\* an except clause that logs and goes on
Swallow(st) == [st EXCEPT !.raised = FALSE]

\* the handler calls the store function of the given name
Called(st, name) == [st EXCEPT !.writes = Append(@, name)]

\* a row returned by a query, None being the empty dict
NoRow == <<>>
IsNone(row) == DOMAIN row = {}

\* .single().execute() raises when no row matches
get_driver_by_id(ds, driver_id) ==
    IF driver_id \in DOMAIN ds
    THEN [raised |-> FALSE, data |-> [id |-> driver_id] @@ ds[driver_id]]
    ELSE [raised |-> TRUE, data |-> NoRow]

\* the same query, the exception caught and None returned
get_load_by_id(ls, load_id) ==
    IF load_id \in DOMAIN ls THEN [id |-> load_id] @@ ls[load_id] ELSE NoRow

\* the ids of the rows whose phone equals the argument; the code takes
\* response.data[0] of a query without ORDER BY, i.e. any one of them
get_driver_by_phone(ds, phone) == {d \in DOMAIN ds : ds[d].phone = phone}

\* the drivers row is updated, the insert into the history is left out
update_driver_status_no_history(st, fail, driver_id, is_loaded, location, reason) ==
    IF "drivers" \in fail THEN Raise(st, "drivers")
    ELSE [st EXCEPT !.drivers =
              [d \in DOMAIN @ |->
                 IF d = driver_id
                 THEN [@[d] EXCEPT !.is_loaded = is_loaded, !.current_location = location]
                 ELSE @[d]]]

update_driver_status(st, fail, driver_id, is_loaded, location, reason) ==
    IF "drivers" \in fail THEN Raise(st, "drivers")
    ELSE LET ds == [d \in DOMAIN st.drivers |->
                      IF d = driver_id
                      THEN [st.drivers[d] EXCEPT !.is_loaded = is_loaded,
                                                 !.current_location = location]
                      ELSE st.drivers[d]]
             s1 == [st EXCEPT !.drivers = ds]
         IN  IF "driver_status" \in fail THEN Raise(s1, "driver_status")
             ELSE [s1 EXCEPT !.driver_status =
                       Append(@, [driver_id |-> driver_id, is_loaded |-> is_loaded,
                                  location |-> location, notes |-> reason])]

create_call_log(st, fail, driver_id, is_loaded, reason, location, call_sid) ==
    IF "call_logs" \in fail THEN Raise(st, "call_logs")
    ELSE [st EXCEPT !.call_logs =
              Append(@, [driver_id |-> driver_id, call_sid |-> call_sid,
                         is_loaded |-> is_loaded, reason_not_loaded |-> reason,
                         current_location |-> location])]

\* the update of the load leaves assigned_driver_id out
assign_load_to_driver_status_only(st, fail, load_id, driver_id) ==
    IF "loads" \in fail THEN Raise(st, "loads")
    ELSE LET ls == [l \in DOMAIN st.loads |->
                      IF l = load_id THEN [st.loads[l] EXCEPT !.status = "assigned"]
                      ELSE st.loads[l]]
             s1 == [st EXCEPT !.loads = ls]
         IN  IF "drivers" \in fail THEN Raise(s1, "drivers")
             ELSE [s1 EXCEPT !.drivers =
                       [d \in DOMAIN @ |->
                          IF d = driver_id THEN [@[d] EXCEPT !.is_loaded = TRUE]
                          ELSE @[d]]]

\* the update of the load is conditional on its status: a load that is no
\* longer 'available' matches no row and is left as it is
assign_load_to_driver_if_available(st, fail, load_id, driver_id) ==
    IF "loads" \in fail THEN Raise(st, "loads")
    ELSE LET ls == [l \in DOMAIN st.loads |->
                      IF l = load_id /\ st.loads[l].status = "available"
                      THEN [st.loads[l] EXCEPT !.status = "assigned",
                                               !.assigned_driver_id = driver_id]
                      ELSE st.loads[l]]
             s1 == [st EXCEPT !.loads = ls]
         IN  IF "drivers" \in fail THEN Raise(s1, "drivers")
             ELSE [s1 EXCEPT !.drivers =
                       [d \in DOMAIN @ |->
                          IF d = driver_id THEN [@[d] EXCEPT !.is_loaded = TRUE]
                          ELSE @[d]]]

assign_load_to_driver(st, fail, load_id, driver_id) ==
    IF "loads" \in fail THEN Raise(st, "loads")
    ELSE LET ls == [l \in DOMAIN st.loads |->
                      IF l = load_id
                      THEN [st.loads[l] EXCEPT !.status = "assigned",
                                               !.assigned_driver_id = driver_id]
                      ELSE st.loads[l]]
             s1 == [st EXCEPT !.loads = ls]
         IN  IF "drivers" \in fail THEN Raise(s1, "drivers")
             ELSE [s1 EXCEPT !.drivers =
                       [d \in DOMAIN @ |->
                          IF d = driver_id THEN [@[d] EXCEPT !.is_loaded = TRUE]
                          ELSE @[d]]]

\* a rejected offer is stored under its own status
LoadStatusFor_rejected(status) ==
    IF status = "accepted" THEN "confirmed"
    ELSE IF status = "rejected" THEN "rejected"
    ELSE "pending"

LoadStatusFor(status) ==
    IF status = "accepted" THEN "confirmed"
    ELSE IF status = "rejected" THEN "available"
    ELSE "pending"

\* the whole body is inside try/except: it never raises
update_load_assignment_status(st, fail, load_id, driver_id, status, reason, estimated_pickup, concerns) ==
    IF "loads" \in fail THEN Swallow(Raise(st, "loads"))
    ELSE [st EXCEPT !.loads =
              [l \in DOMAIN @ |->
                 IF l = load_id
                 THEN [@[l] EXCEPT !.status = LoadStatusFor(status),
                                   !.driver_response = status,
                                   !.response_reason = reason,
                                   !.estimated_pickup = estimated_pickup,
                                   !.driver_concerns = concerns]
                 ELSE @[l]]]

\* the whole body is inside try/except: it never raises
create_load_assignment_log(st, fail, driver_id, load_id, status, reason, concerns, call_sid) ==
    IF "call_logs" \in fail THEN Swallow(Raise(st, "call_logs"))
    ELSE [st EXCEPT !.call_logs =
              Append(@, [driver_id |-> driver_id, call_sid |-> call_sid,
                         call_type |-> "load_assignment", load_id |-> load_id,
                         assignment_status |-> status, reason_not_loaded |-> reason,
                         driver_concerns |-> concerns, current_location |-> "N/A"])]

----------------------------------------------------------------------------
(* Call-initiation builder (vapi_handler.py).  The result is               *)
(* [error, calls]: error is "" when the provider answered with the call,   *)
(* "ValueError" for the missing routing configuration and "HTTPError" for  *)
(* a transport error or a non-success status; calls is the sequence of     *)
(* requests submitted to the provider.                                     *)

\* what the provider does with a submitted request
Outcomes == {"created", "status_error", "transport_error"}

\* TWILIO_ACCOUNT_SID and TWILIO_AUTH_TOKEN and TWILIO_PHONE_NUMBER
HasTwilio(env) == env.twilio

HasRouting(env) == HasTwilio(env) \/ env.vapi_phone_number_id

\* a failed submission is sent a second time
SubmitCall_retry(env, calls, payload, outcome) ==
    IF ~HasRouting(env) THEN [error |-> "ValueError", calls |-> calls]
    ELSE LET routed == payload @@
                       [routing |-> IF HasTwilio(env) THEN "phoneNumber"
                                    ELSE "phoneNumberId",
                        answer |-> outcome]
         IN  IF outcome = "created"
             THEN [error |-> "", calls |-> Append(calls, routed)]
             ELSE [error |-> "HTTPError", calls |-> Append(Append(calls, routed), routed)]

SubmitCall(env, calls, payload, outcome) ==
    IF ~HasRouting(env) THEN [error |-> "ValueError", calls |-> calls]
    ELSE LET routed == payload @@
                       [routing |-> IF HasTwilio(env) THEN "phoneNumber"
                                    ELSE "phoneNumberId",
                        answer |-> outcome]
         IN  [error |-> IF outcome = "created" THEN "" ELSE "HTTPError",
              calls |-> Append(calls, routed)]

create_load_assignment_call(env, calls, driver_phone, driver_id, load, outcome) ==
    SubmitCall(env, calls,
               [number |-> format_indian_phone_number(driver_phone),
                metadata |-> [driver_id |-> driver_id, load_id |-> load.id,
                              call_type |-> "load_assignment"]],
               outcome)

create_outbound_call(env, calls, driver_phone, driver_id, outcome) ==
    SubmitCall(env, calls,
               [number |-> format_indian_phone_number(driver_phone),
                metadata |-> [driver_id |-> driver_id]],
               outcome)

----------------------------------------------------------------------------
(* HTTP handlers (main.py).  A handler's result is [st, calls, resp,       *)
(* lookups, driver_id]; resp is [code, status, detail].                    *)

HTTPException(st, calls, code, detail) ==
    [st |-> st, calls |-> calls, lookups |-> <<>>, driver_id |-> None,
     resp |-> [code |-> code, status |-> "error", detail |-> detail]]

Success(st, calls) ==
    [st |-> st, calls |-> calls, lookups |-> <<>>, driver_id |-> None,
     resp |-> [code |-> 200, status |-> "success", detail |-> ""]]

\* the test of the status blocks only a load a driver has confirmed
LoadIsAvailable_confirmed(load) == load.status # "confirmed"

LoadIsAvailable(load) == load.status = "available"

\* a failed call leaves the store as the request found it
assign_load_handler_undo(st, env, calls, body, fail, outcome) ==
    LET driver_id == Get(body, "driver_id", None)
        load_id   == Get(body, "load_id", None)
    IN  IF ~Truthy(driver_id) \/ ~Truthy(load_id)
        THEN HTTPException(st, calls, 400, "Both driver_id and load_id are required")
        ELSE
        LET dq   == get_driver_by_id(st.drivers, driver_id)
            load == get_load_by_id(st.loads, load_id)
        IN  IF dq.raised THEN HTTPException(st, calls, 500, "APIError")
            ELSE IF IsNone(dq.data) THEN HTTPException(st, calls, 404, "Driver not found")
            ELSE IF IsNone(load) THEN HTTPException(st, calls, 404, "Load not found")
            ELSE IF ~LoadIsAvailable(load)
                 THEN HTTPException(st, calls, 400, "Load is not available for assignment")
            ELSE
            LET s1 == assign_load_to_driver(Called(st, "assign_load_to_driver"),
                                            fail, load_id, driver_id)
            IN  IF s1.raised THEN HTTPException(Swallow(s1), calls, 500, "APIError")
                ELSE
                LET c == create_load_assignment_call(env, calls, dq.data.phone,
                                                     dq.data.id, load, outcome)
                IN  IF c.error # "" THEN HTTPException(st, c.calls, 500, c.error)
                    ELSE Success(s1, c.calls)

assign_load_handler(st, env, calls, body, fail, outcome) ==
    LET driver_id == Get(body, "driver_id", None)
        load_id   == Get(body, "load_id", None)
    IN  IF ~Truthy(driver_id) \/ ~Truthy(load_id)
        THEN HTTPException(st, calls, 400, "Both driver_id and load_id are required")
        ELSE
        LET dq   == get_driver_by_id(st.drivers, driver_id)
            load == get_load_by_id(st.loads, load_id)
        IN  IF dq.raised THEN HTTPException(st, calls, 500, "APIError")
            ELSE IF IsNone(dq.data) THEN HTTPException(st, calls, 404, "Driver not found")
            ELSE IF IsNone(load) THEN HTTPException(st, calls, 404, "Load not found")
            ELSE IF ~LoadIsAvailable(load)
                 THEN HTTPException(st, calls, 400, "Load is not available for assignment")
            ELSE
            LET s1 == assign_load_to_driver(Called(st, "assign_load_to_driver"),
                                            fail, load_id, driver_id)
            IN  IF s1.raised THEN HTTPException(Swallow(s1), calls, 500, "APIError")
                ELSE
                LET c == create_load_assignment_call(env, calls, dq.data.phone,
                                                     dq.data.id, load, outcome)
                IN  IF c.error # "" THEN HTTPException(s1, c.calls, 500, c.error)
                    ELSE Success(s1, c.calls)

make_call_handler(st, env, calls, request, outcome) ==
    LET dq == get_driver_by_id(st.drivers, request.driver_id)
    IN  IF dq.raised THEN HTTPException(st, calls, 500, "APIError")
        ELSE IF IsNone(dq.data) THEN HTTPException(st, calls, 404, "Driver not found")
        ELSE
        LET c == create_outbound_call(env, calls, dq.data.phone, dq.data.id, outcome)
        IN  IF c.error = "ValueError" THEN HTTPException(st, c.calls, 400, c.error)
            ELSE IF c.error # "" THEN HTTPException(st, c.calls, 500, c.error)
            ELSE Success(st, c.calls)

----------------------------------------------------------------------------
(* vapi_webhook *)

EmptyDict == <<>>

\* the call report is taken for a function call as well
FunctionCallTypes_with_report == {"function-call", "tool-calls", "end-of-call-report"}

FunctionCallTypes == {"function-call", "tool-calls"}

HandledNames == {"update_driver_status", "updateLoadStatus", "updateLoadAssignment",
                 "updateDriverStatus"}

\* body.get("message", {}).get("type") or body.get("type")
EventType(body) ==
    LET t == Get(Get(body, "message", EmptyDict), "type", None)
    IN  IF Truthy(t) THEN t ELSE Get(body, "type", None)

\* the canonical {name, parameters} of the two payload shapes
\* the parameters of a tool call are read under the key 'parameters'
FuncCall_parameters(body, event_type) ==
    LET message == Get(body, "message", EmptyDict)
    IN  IF event_type = "tool-calls"
        THEN LET tool_calls == Get(message, "toolCalls", <<>>)
             IN  IF Len(tool_calls) > 0
                 THEN LET f == Get(tool_calls[1], "function", EmptyDict)
                      IN  [name |-> Get(f, "name", None),
                           parameters |-> Get(f, "parameters", EmptyDict)]
                 ELSE EmptyDict
        ELSE Get(message, "functionCall", EmptyDict)

FuncCall(body, event_type) ==
    LET message == Get(body, "message", EmptyDict)
    IN  IF event_type = "tool-calls"
        THEN LET tool_calls == Get(message, "toolCalls", <<>>)
             IN  IF Len(tool_calls) > 0
                 THEN LET f == Get(tool_calls[1], "function", EmptyDict)
                      IN  [name |-> Get(f, "name", None),
                           parameters |-> Get(f, "arguments", EmptyDict)]
                 ELSE EmptyDict
        ELSE Get(message, "functionCall", EmptyDict)

\* call_data.get("metadata", {}).get("driver_id") if call_data else None
MetadataDriverId(call_data) ==
    IF DOMAIN call_data # {}
    THEN Get(Get(call_data, "metadata", EmptyDict), "driver_id", None)
    ELSE None

\* message.customer.number, else message.phoneNumber.number
PayloadPhone(body) ==
    LET message == Get(body, "message", EmptyDict)
        c == Get(Get(message, "customer", EmptyDict), "number", <<>>)
    IN  IF c # <<>> THEN c
        ELSE Get(Get(message, "phoneNumber", EmptyDict), "number", <<>>)

CountryPrefix == <<"+", "9", "1">>

\* the lookups by phone: exact, without the country code, with it.
\* [ids, lookups]: the drivers the first hit may return, or {None}
\* the number without the country code is tried before the exact number
PhoneLookup_strip_first(ds, phone) ==
    LET strip == StartsWith(phone, CountryPrefix)
        m1 == IF strip THEN get_driver_by_phone(ds, DropFirst(phone, 3)) ELSE {}
        m2 == IF m1 = {} THEN get_driver_by_phone(ds, phone) ELSE m1
        add == m2 = {} /\ ~StartsWith(phone, <<"+">>)
        m3 == IF add THEN get_driver_by_phone(ds, CountryPrefix \o phone) ELSE m2
    IN  [ids |-> IF m3 = {} THEN {None} ELSE m3,
         lookups |-> (IF strip THEN <<DropFirst(phone, 3)>> ELSE <<>>)
                     \o (IF m1 = {} THEN <<phone>> ELSE <<>>)
                     \o (IF add THEN <<CountryPrefix \o phone>> ELSE <<>>)]

PhoneLookup(ds, phone) ==
    LET m1 == get_driver_by_phone(ds, phone)
        strip == m1 = {} /\ StartsWith(phone, CountryPrefix)
        m2 == IF strip THEN get_driver_by_phone(ds, DropFirst(phone, 3)) ELSE m1
        add == m2 = {} /\ ~StartsWith(phone, <<"+">>)
        m3 == IF add THEN get_driver_by_phone(ds, CountryPrefix \o phone) ELSE m2
    IN  [ids |-> IF m3 = {} THEN {None} ELSE m3,
         lookups |-> <<phone>>
                     \o (IF strip THEN <<DropFirst(phone, 3)>> ELSE <<>>)
                     \o (IF add THEN <<CountryPrefix \o phone>> ELSE <<>>)]

\* a phone number in the payload is looked up before the metadata is read
ResolveDriver_phone_first(ds, body) ==
    LET driver_id == MetadataDriverId(Get(body, "call", EmptyDict))
        phone == PayloadPhone(body)
    IN  IF phone # <<>> THEN PhoneLookup(ds, phone)
        ELSE IF Truthy(driver_id) THEN [ids |-> {driver_id}, lookups |-> <<>>]
        ELSE [ids |-> {None}, lookups |-> <<>>]

ResolveDriver(ds, body) ==
    LET driver_id == MetadataDriverId(Get(body, "call", EmptyDict))
    IN  IF Truthy(driver_id) THEN [ids |-> {driver_id}, lookups |-> <<>>]
        ELSE LET phone == PayloadPhone(body)
             IN  IF phone # <<>> THEN PhoneLookup(ds, phone)
                 ELSE [ids |-> {None}, lookups |-> <<>>]

WebhookReturn(st, looked_up, driver_id) ==
    [st |-> Swallow(st), lookups |-> looked_up, driver_id |-> driver_id,
     resp |-> [code |-> 200, status |-> IF st.raised THEN "error" ELSE "success",
               detail |-> IF st.raised THEN "APIError" ELSE ""]]

\* the load status write is issued whether or not the metadata carry a load_id
LoadAssignmentBranch_always(st, fail, params, call_data, driver_id) ==
    LET assignment_status == Get(params, "status", "needs_discussion")
        reason == Get(params, "reason", "")
        estimated_pickup == Get(params, "estimated_pickup", "")
        concerns == Get(params, "concerns", "")
        load_id == Get(Get(call_data, "metadata", EmptyDict), "load_id", None)
        s1 == IF TRUE
              THEN Swallow(update_load_assignment_status(
                               Called(st, "update_load_assignment_status"), fail,
                               load_id, driver_id, assignment_status, reason,
                               estimated_pickup, concerns))
              ELSE st
    IN  Swallow(create_load_assignment_log(
                    Called(s1, "create_load_assignment_log"), fail, driver_id, load_id,
                    assignment_status, reason, concerns, Get(call_data, "id", None)))

LoadAssignmentBranch(st, fail, params, call_data, driver_id) ==
    LET assignment_status == Get(params, "status", "needs_discussion")
        reason == Get(params, "reason", "")
        estimated_pickup == Get(params, "estimated_pickup", "")
        concerns == Get(params, "concerns", "")
        load_id == Get(Get(call_data, "metadata", EmptyDict), "load_id", None)
        s1 == IF Truthy(load_id)
              THEN Swallow(update_load_assignment_status(
                               Called(st, "update_load_assignment_status"), fail,
                               load_id, driver_id, assignment_status, reason,
                               estimated_pickup, concerns))
              ELSE st
    IN  Swallow(create_load_assignment_log(
                    Called(s1, "create_load_assignment_log"), fail, driver_id, load_id,
                    assignment_status, reason, concerns, Get(call_data, "id", None)))

\* every status but 'Available' counts as loaded
LoadStatusBranch_not_available(st, fail, params, call_data, driver_id) ==
    LET status == Get(params, "status", "Available")
        is_loaded == (status # "Available")
        location == Get(params, "location", "Unknown")
        reason == Get(params, "reason", "")
        s1 == Swallow(update_driver_status(Called(st, "update_driver_status"), fail,
                                           driver_id, is_loaded, location, reason))
    IN  Swallow(create_call_log(Called(s1, "create_call_log"), fail, driver_id,
                                is_loaded, reason, location, Get(call_data, "id", None)))

LoadStatusBranch(st, fail, params, call_data, driver_id) ==
    LET status == Get(params, "status", "Available")
        is_loaded == (status = "Loaded")
        location == Get(params, "location", "Unknown")
        reason == Get(params, "reason", "")
        s1 == Swallow(update_driver_status(Called(st, "update_driver_status"), fail,
                                           driver_id, is_loaded, location, reason))
    IN  Swallow(create_call_log(Called(s1, "create_call_log"), fail, driver_id,
                                is_loaded, reason, location, Get(call_data, "id", None)))

\* the old format: the two writes are not inside a try of their own
OldFormatBranch(st, fail, params, call_data, driver_id) ==
    LET is_loaded == Get(params, "is_loaded", FALSE)
        location == Get(params, "location", "Unknown")
        reason == Get(params, "reason_not_loaded", "")
        s1 == update_driver_status(Called(st, "update_driver_status"), fail,
                                   driver_id, is_loaded, location, reason)
    IN  IF s1.raised THEN s1
        ELSE create_call_log(Called(s1, "create_call_log"), fail, driver_id,
                             is_loaded, reason, location, Get(call_data, "id", None))

\* the branches run without the test of driver_id
Dispatch_unchecked(st, fail, func_call, call_data, driver_id) ==
    LET params == Get(func_call, "parameters", EmptyDict)
    IN  IF func_call.name = "updateLoadAssignment"
        THEN LoadAssignmentBranch(st, fail, params, call_data, driver_id)
        ELSE IF func_call.name = "updateLoadStatus"
             THEN LoadStatusBranch(st, fail, params, call_data, driver_id)
        ELSE OldFormatBranch(st, fail, params, call_data, driver_id)

Dispatch(st, fail, func_call, call_data, driver_id) ==
    LET params == Get(func_call, "parameters", EmptyDict)
    IN  IF ~Truthy(driver_id) THEN st
        ELSE IF func_call.name = "updateLoadAssignment"
             THEN LoadAssignmentBranch(st, fail, params, call_data, driver_id)
        ELSE IF func_call.name = "updateLoadStatus"
             THEN LoadStatusBranch(st, fail, params, call_data, driver_id)
        ELSE OldFormatBranch(st, fail, params, call_data, driver_id)

IsHandled(body) ==
    /\ EventType(body) \in FunctionCallTypes
    /\ Get(FuncCall(body, EventType(body)), "name", None) \in HandledNames

\* the results of the handler, one for each driver the lookup may return
vapi_webhook_handler(st, body, fail) ==
    IF IsHandled(body)
    THEN LET r == ResolveDriver(st.drivers, body)
         IN  {WebhookReturn(Dispatch(st, fail, FuncCall(body, EventType(body)),
                                     Get(body, "call", EmptyDict), d), r.lookups, d)
              : d \in r.ids}
    ELSE {WebhookReturn(st, <<>>, None)}

----------------------------------------------------------------------------
(* The environment: the rows the administrative flows created, the routing *)
(* configuration, and the requests the callers and the provider send.      *)

DriverIds == {"d1", "d2"}
LoadIds == {"l1"}
UnknownDriver == "d9"
UnknownLoad == "l9"

Local == <<"9", "8", "7", "6", "5", "4", "3", "2", "1", "0">>

StoredPhones == {Local, CountryPrefix \o Local}

Envs == {[twilio |-> TRUE, vapi_phone_number_id |-> TRUE],
         [twilio |-> FALSE, vapi_phone_number_id |-> TRUE],
         [twilio |-> FALSE, vapi_phone_number_id |-> FALSE]}

\* the store answers every write, or rejects the writes to one table, or to all
FailSets == {{}} \cup {{t} : t \in Tables} \cup {Tables}

AssignBodies ==
    {d @@ l : d \in OptKey("driver_id", DriverIds \cup {UnknownDriver}),
              l \in OptKey("load_id", LoadIds \cup {UnknownLoad})}

MakeCallRequests == {[driver_id |-> d] : d \in DriverIds \cup {UnknownDriver}}

FC(name, params) == "functionCall" :> [name |-> name, parameters |-> params]
TC(name, params) == "toolCalls" :> <<[function |-> [name |-> name, arguments |-> params]]>>
Call(id, metadata) == "call" :> ([id |-> id] @@ metadata)
Metadata(driver, load) == "metadata" :> (driver @@ load)
Body(message, top, call) == ("message" :> message) @@ top @@ call

\* parameters that take effect in every mutation branch
RichParams == [status |-> "Loaded", location |-> "Dallas, TX", is_loaded |-> TRUE]
RichCall == Call("c1", Metadata("driver_id" :> "d1", "load_id" :> "l1"))

\* every event type, at message.type and at the top level
TypeBodies ==
    {Body(t @@ FC("updateLoadStatus", RichParams) @@ TC("updateLoadStatus", RichParams),
          top, RichCall)
     : t \in OptKey("type", FunctionCallTypes \cup {"end-of-call-report", "transcript"}),
       top \in OptKey("type", {"function-call"})}

\* every function name, in both payload shapes
NameBodies ==
    {Body(("type" :> ty) @@ f, EmptyDict, RichCall)
     : ty \in FunctionCallTypes,
       f \in {FC(n, RichParams) : n \in HandledNames \cup {"transferCall"}}
            \cup {TC(n, RichParams) : n \in HandledNames \cup {"transferCall"}}
            \cup {"functionCall" :> [parameters |-> RichParams],
                  "toolCalls" :> <<>>, EmptyDict}}

EventBodies == TypeBodies \cup NameBodies

\* the outcomes of a load-assignment call
AssignmentBodies ==
    {Body(("type" :> "function-call") @@ FC("updateLoadAssignment", s), EmptyDict,
          Call("c1", Metadata("driver_id" :> d, l)))
     : s \in OptKey("status", {"accepted", "rejected", "needs_discussion"}),
       d \in DriverIds, l \in OptKey("load_id", LoadIds)}

\* the outcomes of a status-check call, in the current and the old format
StatusBodies ==
    {Body(("type" :> "function-call") @@ FC("updateLoadStatus", s @@ loc), EmptyDict,
          Call("c1", Metadata("driver_id" :> d, EmptyDict)))
     : s \in OptKey("status", {"Loaded", "Delayed", "Available"}),
       loc \in OptKey("location", {"Dallas, TX"}), d \in DriverIds}
    \cup
    {Body(("type" :> "function-call") @@ FC(n, il), EmptyDict,
          Call("c2", Metadata("driver_id" :> d, EmptyDict)))
     : n \in {"update_driver_status", "updateDriverStatus"},
       il \in OptKey("is_loaded", BOOLEAN), d \in DriverIds}
    \cup
    \* the tool-calls shape, and a driver named by the phone number only
    {Body(("type" :> "tool-calls") @@ TC(n, RichParams), EmptyDict, RichCall)
     : n \in {"updateLoadStatus", "updateDriverStatus"}}
    \cup
    {Body(("type" :> "function-call") @@ FC(n, RichParams)
              @@ ("customer" :> [number |-> CountryPrefix \o Local]),
          EmptyDict, call)
     : n \in {"updateLoadStatus", "update_driver_status"},
       call \in {EmptyDict, Call("c2", EmptyDict)}}

\* the places a driver's identity can come from
IdentityBodies ==
    {Body(("type" :> "function-call") @@ FC("updateLoadStatus", RichParams) @@ cu @@ pn,
          EmptyDict, call)
     : cu \in {EmptyDict} \cup
              {"customer" :> [number |-> p]
               : p \in {Local, CountryPrefix \o Local, <<"9", "1">> \o Local}},
       pn \in {EmptyDict, "phoneNumber" :> [number |-> Local],
               "phoneNumber" :> [number |-> CountryPrefix \o Local]},
       call \in {EmptyDict, Call("c1", EmptyDict),
                 Call("c1", Metadata("driver_id" :> "d2", EmptyDict))}}

----------------------------------------------------------------------------
(* The state machine: one action for each handler.  Each specification     *)
(* below lets the callers and the provider send one family of requests.    *)

EmptyLoad == [status |-> "available", assigned_driver_id |-> None,
              driver_response |-> None, response_reason |-> None,
              estimated_pickup |-> None, driver_concerns |-> None]

NewDriver(phone) == [phone |-> phone, is_loaded |-> FALSE, current_location |-> None]

\* the state of a started process, the tables holding the given drivers
Started(ds, env) ==
    /\ drivers = ds
    /\ loads = [l \in LoadIds |-> EmptyLoad]
    /\ driver_status = <<>>
    /\ call_logs = <<>>
    /\ vapi_calls = <<>>
    /\ routing = env
    /\ req = [op |-> "none"]
    /\ resp = [code |-> 0, status |-> "", detail |-> ""]
    /\ lookups = <<>>
    /\ failed = {}
    /\ resolved = None
    /\ formatted = <<>>
    /\ writes = <<>>
    /\ inflight = <<>>
    /\ nreq = 0

TwoDrivers == [d \in DriverIds |->
                 NewDriver(IF d = "d1" THEN Local ELSE CountryPrefix \o Local)]

\* the store as a request finds it
Store == [drivers |-> drivers, loads |-> loads, driver_status |-> driver_status,
          call_logs |-> call_logs, raised |-> FALSE, failed |-> {},
          writes |-> <<>>]

Commit(r) ==
    /\ drivers' = r.st.drivers
    /\ loads' = r.st.loads
    /\ driver_status' = r.st.driver_status
    /\ call_logs' = r.st.call_logs
    /\ failed' = r.st.failed
    /\ writes' = r.st.writes
    /\ resp' = r.resp
    /\ lookups' = r.lookups
    /\ resolved' = r.driver_id
    /\ nreq' = nreq + 1
    /\ UNCHANGED <<routing, formatted, inflight>>

assign_load ==
    /\ nreq < MaxReq
    /\ \E body \in AssignBodies, fail \in FailSets, outcome \in Outcomes :
          LET r == assign_load_handler(Store, routing, vapi_calls, body, fail, outcome)
          IN  /\ Commit(r)
              /\ vapi_calls' = r.calls
              /\ req' = [op |-> "assign_load", body |-> body]

make_call ==
    /\ nreq < MaxReq
    /\ \E request \in MakeCallRequests, outcome \in Outcomes :
          LET r == make_call_handler(Store, routing, vapi_calls, request, outcome)
          IN  /\ Commit(r)
              /\ vapi_calls' = r.calls
              /\ req' = [op |-> "make_call", body |-> request]

vapi_webhook(bodies) ==
    /\ nreq < MaxReq
    /\ \E body \in bodies, fail \in FailSets :
          \E r \in vapi_webhook_handler(Store, body, fail) :
              /\ Commit(r)
              /\ UNCHANGED vapi_calls
              /\ req' = [op |-> "vapi_webhook", body |-> body]

\* Spec: load assignment and its calls, with the webhooks of assignment calls
assignment_webhook == vapi_webhook(AssignmentBodies)

Init == \E env \in Envs : Started(TwoDrivers, env)

Next == assign_load \/ make_call \/ assignment_webhook

Spec == Init /\ [][Next]_vars

\* SpecStatus: the webhooks of status-check calls
status_webhook == vapi_webhook(StatusBodies)

InitStatus == Started(TwoDrivers, CHOOSE env \in Envs : HasRouting(env))

NextStatus == status_webhook

SpecStatus == InitStatus /\ [][NextStatus]_vars

\* SpecEvents: every event type and function name
event_webhook == vapi_webhook(EventBodies)

NextEvents == event_webhook

SpecEvents == InitStatus /\ [][NextEvents]_vars

\* SpecResolve: webhooks that name the driver by metadata, by phone or not at
\* all, received by stores holding the phones in either format
identity_webhook == vapi_webhook(IdentityBodies)

InitResolve ==
    \E ds \in [DriverIds -> {NewDriver(p) : p \in StoredPhones}] :
        Started(ds, CHOOSE env \in Envs : HasRouting(env))

NextResolve == identity_webhook

SpecResolve == InitResolve /\ [][NextResolve]_vars

\* SpecPhone: a phone number is normalized, and the result normalized again
HeadChars == {"+", "0", "9", "1"}
Mid == <<"8", "7", "6", "5", "4", "3", "2", "1">>
Tails == {<<>>, <<"5">>, <<"-", "5">>, <<"5", "5">>, <<" ", "5", "5">>}

PhoneInputs ==
    {h \o Mid \o t : h \in UNION {[1..k -> HeadChars] : k \in 0..MaxHead}, t \in Tails}

InitPhone ==
    /\ drivers = TwoDrivers
    /\ loads = [l \in LoadIds |-> EmptyLoad]
    /\ driver_status = <<>>
    /\ call_logs = <<>>
    /\ vapi_calls = <<>>
    /\ routing \in {env \in Envs : HasTwilio(env)}
    /\ req \in {[op |-> "format_indian_phone_number", phone |-> x] : x \in PhoneInputs}
    /\ resp = [code |-> 0, status |-> "", detail |-> ""]
    /\ lookups = <<>>
    /\ failed = {}
    /\ resolved = None
    /\ formatted = <<>>
    /\ writes = <<>>
    /\ inflight = <<>>
    /\ nreq = 0

normalize ==
    /\ Len(formatted) < 2
    /\ formatted' = Append(formatted,
                           format_indian_phone_number(
                               IF formatted = <<>> THEN req.phone
                               ELSE formatted[Len(formatted)]))
    /\ UNCHANGED <<drivers, loads, driver_status, call_logs, vapi_calls, routing,
                   req, resp, lookups, failed, resolved, writes, inflight, nreq>>

NextPhone == normalize

SpecPhone == InitPhone /\ [][NextPhone]_vars

\* SpecCheckCall: status-check calls are started and their webhooks arrive
NextCheckCall == make_call \/ status_webhook

SpecCheckCall == InitStatus /\ [][NextCheckCall]_vars

\* SpecRace: assign_load requests in progress at the same time.  A request
\* is accepted by one of the worker processes serving the app; its handler
\* runs in three segments: the body is received (await request.json()),
\* the driver and the load are read and tested, the assignment is written,
\* and the call is submitted (await client.post).  The store calls are
\* blocking round trips, so inside one worker's event loop no other
\* handler runs between the test and the write; handlers in different
\* worker processes share nothing but the store and interleave freely.
Workers == {"w1", "w2"}

RaceBodies == {[driver_id |-> d, load_id |-> l] : d \in DriverIds, l \in LoadIds}

\* the event loop of worker w is inside the segment of a request other than r
Busy(w, r) ==
    \E s \in DOMAIN inflight \ {r} : inflight[s].worker = w /\ inflight[s].pc = "checked"

\* the response to request r is returned
Finish(fl, r, code, detail) ==
    /\ inflight' = [fl EXCEPT ![r].pc = "done", ![r].code = code]
    /\ req' = [op |-> "assign_load", body |-> fl[r].body]
    /\ resp' = [code |-> code, status |-> IF code = 200 THEN "success" ELSE "error",
                detail |-> detail]
    /\ nreq' = nreq + 1

race_receive ==
    /\ Len(inflight) < MaxReq
    /\ \E w \in Workers, body \in RaceBodies :
          /\ ~Busy(w, 0)
          /\ inflight' = Append(inflight,
                                [pc |-> "received", worker |-> w, body |-> body,
                                 driver |-> NoRow, load |-> NoRow, seq |-> 0, code |-> 0])
    /\ UNCHANGED <<drivers, loads, driver_status, call_logs, vapi_calls, routing, req,
                   resp, lookups, failed, resolved, formatted, writes, nreq>>

race_check ==
    \E r \in DOMAIN inflight :
        /\ inflight[r].pc = "received"
        /\ ~Busy(inflight[r].worker, r)
        /\ LET dq   == get_driver_by_id(drivers, inflight[r].body.driver_id)
               load == get_load_by_id(loads, inflight[r].body.load_id)
           IN  IF dq.raised THEN Finish(inflight, r, 500, "APIError")
               ELSE IF IsNone(load) THEN Finish(inflight, r, 404, "Load not found")
               ELSE IF ~LoadIsAvailable(load)
                    THEN Finish(inflight, r, 400, "Load is not available for assignment")
               ELSE /\ inflight' = [inflight EXCEPT ![r].pc = "checked",
                                                    ![r].driver = dq.data,
                                                    ![r].load = load]
                    /\ UNCHANGED <<req, resp, nreq>>
        /\ UNCHANGED <<drivers, loads, driver_status, call_logs, vapi_calls, routing,
                       lookups, failed, resolved, formatted, writes>>

race_write ==
    \E r \in DOMAIN inflight, fail \in FailSets :
        /\ inflight[r].pc = "checked"
        /\ LET s1 == assign_load_to_driver(Called(Store, "assign_load_to_driver"), fail,
                                           inflight[r].body.load_id,
                                           inflight[r].body.driver_id)
               n  == Cardinality({s \in DOMAIN inflight : inflight[s].seq > 0})
               fl == IF "loads" \in fail THEN inflight
                     ELSE [inflight EXCEPT ![r].seq = n + 1]
           IN  /\ drivers' = s1.drivers
               /\ loads' = s1.loads
               /\ failed' = s1.failed
               /\ writes' = s1.writes
               /\ IF s1.raised THEN Finish(fl, r, 500, "APIError")
                  ELSE /\ inflight' = [fl EXCEPT ![r].pc = "written"]
                       /\ UNCHANGED <<req, resp, nreq>>
        /\ UNCHANGED <<driver_status, call_logs, vapi_calls, routing, lookups, resolved,
                       formatted>>

race_call ==
    \E r \in DOMAIN inflight, outcome \in Outcomes :
        /\ inflight[r].pc = "written"
        /\ ~Busy(inflight[r].worker, r)
        /\ LET c == create_load_assignment_call(routing, vapi_calls,
                                                inflight[r].driver.phone,
                                                inflight[r].driver.id,
                                                inflight[r].load, outcome)
           IN  /\ vapi_calls' = c.calls
               /\ IF c.error # "" THEN Finish(inflight, r, 500, c.error)
                  ELSE Finish(inflight, r, 200, "")
        /\ UNCHANGED <<drivers, loads, driver_status, call_logs, routing, lookups,
                       failed, resolved, formatted, writes>>

NextRace == race_receive \/ race_check \/ race_write \/ race_call

SpecRace == InitStatus /\ [][NextRace]_vars

----------------------------------------------------------------------------
(* Properties *)

\* this step handled a request of the given handler
Handled(op) == nreq' = nreq + 1 /\ req'.op = op

\* C1: an assign-load request whose driver and load exist and whose load is
\* not 'available' is rejected with 400, leaves the load and the driver
\* records unchanged and submits no call to the voice provider.
C1_UnavailableLoadRejected ==
    [][(/\ Handled("assign_load")
        /\ Get(req'.body, "driver_id", None) \in DOMAIN drivers
        /\ Get(req'.body, "load_id", None) \in DOMAIN loads
        /\ loads[req'.body.load_id].status # "available")
       => (/\ resp'.code = 400
           /\ loads' = loads
           /\ drivers' = drivers
           /\ vapi_calls' = vapi_calls)]_vars

\* an assign-load request for an existing driver and a load that an earlier
\* request took out of 'available' has been rejected
C1_Witness ==
    /\ req.op = "assign_load"
    /\ nreq = 2
    /\ Get(req.body, "driver_id", None) \in DOMAIN drivers
    /\ Get(req.body, "load_id", None) \in DOMAIN loads
    /\ loads[req.body.load_id].status \in {"assigned", "confirmed", "pending"}
    /\ resp.code = 400
    /\ resp.detail = "Load is not available for assignment"

\* C2: after an assign-load request that returns success for driver D and
\* load L, load L has status 'assigned' and assigned_driver_id = D.
C2_SuccessfulAssignmentRecorded ==
    (req.op = "assign_load" /\ resp.code = 200)
    => (/\ loads[req.body.load_id].status = "assigned"
        /\ loads[req.body.load_id].assigned_driver_id = req.body.driver_id)

\* an assign-load request has returned success after submitting its call
C2_Witness ==
    /\ req.op = "assign_load"
    /\ resp.code = 200
    /\ resp.status = "success"
    /\ Len(vapi_calls) > 0
    /\ vapi_calls[Len(vapi_calls)].metadata.load_id = req.body.load_id

\* the function name and the call object of a webhook payload
FuncName(body) == Get(FuncCall(body, EventType(body)), "name", None)
CallData(body) == Get(body, "call", EmptyDict)

Last(rows) == rows[Len(rows)]

\* rows is old with exactly one row appended
OneRowAdded(old, rows) == Len(rows) = Len(old) + 1 /\ SubSeq(rows, 1, Len(old)) = old

\* C3: every webhook POST, whatever its event type, function name or branch,
\* and even when a store write inside the handler fails, is answered with
\* status 'success'.
C3_WebhookAlwaysSuccess ==
    req.op = "vapi_webhook" => resp.status = "success"

StatusUpdateNames == {"updateLoadStatus", "update_driver_status", "updateDriverStatus"}

\* C4: a status-update webhook that resolves a driver and whose store writes
\* succeed adds exactly one driver_status row and exactly one call_logs row,
\* both with the resolved driver's id, the call_logs row with the call id of
\* the event, and both with the is_loaded value written to the driver.
C4_OneStatusEventOneCallLog ==
    [][(/\ Handled("vapi_webhook")
        /\ EventType(req'.body) \in {"function-call", "tool-calls"}
        /\ FuncName(req'.body) \in StatusUpdateNames
        /\ resolved' # None
        /\ failed' = {})
       => (/\ OneRowAdded(driver_status, driver_status')
           /\ OneRowAdded(call_logs, call_logs')
           /\ Last(driver_status').driver_id = resolved'
           /\ Last(call_logs').driver_id = resolved'
           /\ Last(call_logs').call_sid = Get(CallData(req'.body), "id", None)
           /\ Last(call_logs').is_loaded = Last(driver_status').is_loaded
           /\ resolved' \in DOMAIN drivers'
           /\ drivers'[resolved'].is_loaded = Last(driver_status').is_loaded)]_vars

\* a status update in the old format has been written for a loaded driver
C4_Witness ==
    /\ req.op = "vapi_webhook"
    /\ FuncName(req.body) = "update_driver_status"
    /\ resolved \in DOMAIN drivers
    /\ failed = {}
    /\ driver_status # <<>>
    /\ call_logs # <<>>
    /\ Last(call_logs) = [driver_id |-> resolved, call_sid |-> "c2", is_loaded |-> TRUE,
                           reason_not_loaded |-> "", current_location |-> "Unknown"]
    /\ Last(driver_status).is_loaded
    /\ drivers[resolved].is_loaded

\* C5: in every reachable state a load whose status is 'available' has no
\* assigned_driver_id, also after a load-assignment webhook reported
\* 'rejected'.
C5_AvailableLoadHasNoDriver ==
    \A l \in DOMAIN loads :
        loads[l].status = "available" => loads[l].assigned_driver_id = None

\* C6: a webhook whose event type is not 'function-call' or 'tool-calls', and
\* a function-call event whose function name is not one of the four handled
\* names, returns success and writes to no table.
C6_UnhandledEventNoWrite ==
    [][(/\ Handled("vapi_webhook")
        /\ \/ EventType(req'.body) \notin {"function-call", "tool-calls"}
           \/ FuncName(req'.body) \notin {"update_driver_status", "updateLoadStatus",
                                          "updateLoadAssignment", "updateDriverStatus"})
       => (/\ resp'.code = 200
           /\ resp'.status = "success"
           /\ UNCHANGED store)]_vars

\* a call report that carries a complete status update of a known driver has
\* been acknowledged, the tables being as they were created
C6_Witness ==
    /\ req.op = "vapi_webhook"
    /\ EventType(req.body) = "end-of-call-report"
    /\ req.body.message.functionCall.name = "updateLoadStatus"
    /\ MetadataDriverId(CallData(req.body)) \in DOMAIN drivers
    /\ resp.status = "success"
    /\ call_logs = <<>>
    /\ driver_status = <<>>
    /\ drivers = TwoDrivers

\* a function-call event with one of the four handled function names
HandledEvent(body) ==
    /\ EventType(body) \in {"function-call", "tool-calls"}
    /\ FuncName(body) \in {"update_driver_status", "updateLoadStatus",
                            "updateLoadAssignment", "updateDriverStatus"}

\* the rows a step appended to a table
NewRows(old, rows) == {rows[i] : i \in (Len(old) + 1)..Len(rows)}

\* C7: a handled webhook event that carries a driver id in
\* call.metadata.driver_id uses that id for all its writes and looks no driver
\* up by phone, whatever phone numbers the payload contains.
C7_MetadataIdNoPhoneLookup ==
    [][(/\ Handled("vapi_webhook")
        /\ HandledEvent(req'.body)
        /\ Truthy(MetadataDriverId(CallData(req'.body))))
       => LET id == MetadataDriverId(CallData(req'.body))
          IN  /\ lookups' = <<>>
              /\ resolved' = id
              /\ \A d \in DOMAIN drivers \ {id} : drivers'[d] = drivers[d]
              /\ \A row \in NewRows(driver_status, driver_status') : row.driver_id = id
              /\ \A row \in NewRows(call_logs, call_logs') : row.driver_id = id]_vars

\* the metadata named d2, the payload carried the phone of d1 and not of d2,
\* and the rows were written for d2 without a lookup
C7_Witness ==
    /\ req.op = "vapi_webhook"
    /\ MetadataDriverId(CallData(req.body)) = "d2"
    /\ PayloadPhone(req.body) = drivers["d1"].phone
    /\ PayloadPhone(req.body) # drivers["d2"].phone
    /\ lookups = <<>>
    /\ failed = {}
    /\ call_logs # <<>> /\ Last(call_logs).driver_id = "d2"
    /\ driver_status # <<>> /\ Last(driver_status).driver_id = "d2"
    /\ drivers["d2"].is_loaded /\ ~drivers["d1"].is_loaded

\* the variants of a phone number p, in the order they are tried: p, p without
\* its leading '+91' (when it has one), '+91' before p
Variants(p) ==
    <<p>> \o (IF StartsWith(p, <<"+", "9", "1">>) THEN <<DropFirst(p, 3)>> ELSE <<>>)
          \o << <<"+", "9", "1">> \o p >>

\* the variants of p that are the stored phone of a driver
Hits(p) == {i \in 1..Len(Variants(p)) :
               \E d \in DOMAIN drivers : drivers[d].phone = Variants(p)[i]}

FirstHit(p) == Variants(p)[CHOOSE i \in Hits(p) : \A j \in Hits(p) : i <= j]

\* C8: a handled webhook event without a metadata driver id whose phone
\* number p (customer.number, else phoneNumber.number) has a variant that is
\* the stored phone of a driver resolves a driver whose stored phone is the
\* first such variant in the order p, p without '+91', '+91' before p; in
\* particular it resolves when exactly one variant is a stored phone.
C8_PhoneVariantsFirstHit ==
    [][(/\ Handled("vapi_webhook")
        /\ HandledEvent(req'.body)
        /\ ~Truthy(MetadataDriverId(CallData(req'.body)))
        /\ PayloadPhone(req'.body) # <<>>
        /\ Hits(PayloadPhone(req'.body)) # {})
       => (/\ resolved' \in DOMAIN drivers
           /\ drivers[resolved'].phone = FirstHit(PayloadPhone(req'.body)))]_vars

\* a driver was resolved by the second lookup, of the number without '+91',
\* that being the only variant stored
C8_Witness ==
    /\ req.op = "vapi_webhook"
    /\ ~Truthy(MetadataDriverId(CallData(req.body)))
    /\ StartsWith(PayloadPhone(req.body), <<"+", "9", "1">>)
    /\ Cardinality(Hits(PayloadPhone(req.body))) = 1
    /\ Len(lookups) = 2
    /\ resolved \in DOMAIN drivers
    /\ drivers[resolved].phone = DropFirst(PayloadPhone(req.body), 3)
    /\ call_logs # <<>> /\ Last(call_logs).driver_id = resolved

\* C9: a handled webhook event that resolves no driver (no metadata driver
\* id, and no phone number or no driver matching a variant of it) writes to
\* no table and returns success.
C9_UnresolvedNoWrite ==
    [][(/\ Handled("vapi_webhook")
        /\ HandledEvent(req'.body)
        /\ ~Truthy(MetadataDriverId(CallData(req'.body)))
        /\ \/ PayloadPhone(req'.body) = <<>>
           \/ Hits(PayloadPhone(req'.body)) = {})
       => (/\ UNCHANGED store
           /\ resp'.code = 200
           /\ resp'.status = "success")]_vars

\* a status update whose phone number matched no driver under any variant has
\* been acknowledged without a row written
C9_Witness ==
    /\ req.op = "vapi_webhook"
    /\ HandledEvent(req.body)
    /\ ~Truthy(MetadataDriverId(CallData(req.body)))
    /\ PayloadPhone(req.body) # <<>>
    /\ Len(lookups) = 2
    /\ resolved = None
    /\ resp.status = "success"
    /\ nreq = 1 /\ call_logs = <<>> /\ driver_status = <<>>

DigitsOf(x) == SelectSeq(x, LAMBDA c : c \in {"0", "1", "2", "3", "4", "5", "6", "7",
                                               "8", "9"})

\* C10: the normalization of an input whose digits form a 10-digit number is
\* '+91' followed by those digits, and for an input whose digits are '91'
\* followed by 10 digits normalize(normalize(x)) = normalize(x).
C10_NormalizeLocalAndIdempotent ==
    LET d == DigitsOf(req.phone)
    IN  /\ (req.op = "format_indian_phone_number" /\ Len(formatted) >= 1 /\ Len(d) = 10)
            => formatted[1] = <<"+", "9", "1">> \o d
        /\ (req.op = "format_indian_phone_number" /\ Len(formatted) = 2
             /\ Len(d) = 12 /\ SubSeq(d, 1, 2) = <<"9", "1">>)
            => formatted[2] = formatted[1]

\* a 10-digit number that begins with 91 and holds one other character has
\* been normalized twice
C10_Witness ==
    /\ req.op = "format_indian_phone_number"
    /\ Len(DigitsOf(req.phone)) = 10
    /\ SubSeq(req.phone, 1, 2) = <<"9", "1">>
    /\ Len(req.phone) = 11
    /\ Len(formatted) = 2
    /\ formatted[2] = <<"+", "9", "1">> \o DigitsOf(req.phone)

\* the status-check call for driver d was submitted and created
CallCreatedFor(d) ==
    \E i \in DOMAIN vapi_calls :
        /\ vapi_calls[i].metadata.driver_id = d
        /\ "load_id" \notin DOMAIN vapi_calls[i].metadata
        /\ vapi_calls[i].answer = "created"

\* C11: after a make-call for driver D, a function-call (or tool-calls)
\* webhook naming updateLoadStatus whose call metadata carry D's id, and
\* whose store writes succeed, leaves D with is_loaded true exactly when the
\* reported status is 'Loaded' (false for 'Delayed', 'Available' and a
\* missing status), with current_location the reported location, and adds
\* exactly one call_logs row, for D, with the same is_loaded.
C11_StatusCheckEndToEnd ==
    [][(/\ Handled("vapi_webhook")
        /\ IsHandled(req'.body)
        /\ FuncName(req'.body) = "updateLoadStatus"
        /\ MetadataDriverId(CallData(req'.body)) \in DOMAIN drivers
        /\ CallCreatedFor(MetadataDriverId(CallData(req'.body)))
        /\ failed' = {})
       => LET D == MetadataDriverId(CallData(req'.body))
              params == Get(FuncCall(req'.body, EventType(req'.body)),
                            "parameters", EmptyDict)
              loaded == (Get(params, "status", None) = "Loaded")
          IN  /\ resolved' = D
              /\ drivers'[D].is_loaded = loaded
              /\ drivers'[D].current_location = Get(params, "location", "Unknown")
              /\ \A d \in DOMAIN drivers \ {D} : drivers'[d] = drivers[d]
              /\ OneRowAdded(call_logs, call_logs')
              /\ Last(call_logs').driver_id = D
              /\ Last(call_logs').is_loaded = loaded
              /\ Last(call_logs').call_sid = Get(CallData(req'.body), "id", None)
              /\ resp'.status = "success"]_vars

\* make-call for d1, then the webhook reports 'Loaded' at "Dallas, TX"
C11_Witness ==
    /\ nreq = 2
    /\ CallCreatedFor("d1")
    /\ req.op = "vapi_webhook"
    /\ EventType(req.body) = "function-call"
    /\ FuncName(req.body) = "updateLoadStatus"
    /\ MetadataDriverId(CallData(req.body)) = "d1"
    /\ failed = {}
    /\ drivers["d1"].is_loaded
    /\ drivers["d1"].current_location = "Dallas, TX"
    /\ Len(call_logs) = 1
    /\ call_logs[1].driver_id = "d1"
    /\ call_logs[1].is_loaded

\* C12: a make-call request whose driver id matches no driver, and an
\* assign-load request whose driver id or load id matches no record, is
\* answered with 404, writes to no table and submits no call to the voice
\* provider.
C12_UnknownIdsAnswered404 ==
    [][(\/ /\ Handled("make_call")
           /\ req'.body.driver_id \notin DOMAIN drivers
        \/ /\ Handled("assign_load")
           /\ Truthy(Get(req'.body, "driver_id", None))
           /\ Truthy(Get(req'.body, "load_id", None))
           /\ \/ req'.body.driver_id \notin DOMAIN drivers
              \/ req'.body.load_id \notin DOMAIN loads)
       => /\ resp'.code = 404
          /\ UNCHANGED store
          /\ writes' = <<>>
          /\ vapi_calls' = vapi_calls]_vars

\* the request reaches the call builder: the driver exists and, for
\* assign_load, the load is available and the assignment was written
ReachesBuilder ==
    \/ /\ Handled("make_call")
       /\ req'.body.driver_id \in DOMAIN drivers
    \/ /\ Handled("assign_load")
       /\ Get(req'.body, "driver_id", None) \in DOMAIN drivers
       /\ Get(req'.body, "load_id", None) \in DOMAIN loads
       /\ LoadIsAvailable(loads[req'.body.load_id])
       /\ failed' = {}

\* C13: with neither routing scheme configured, a make-call or assign-load
\* request that reaches the call builder submits nothing to the voice
\* provider and is answered with 400.
C13_NoRoutingAnswered400 ==
    [][(ReachesBuilder /\ ~HasRouting(routing))
       => (vapi_calls' = vapi_calls /\ resp'.code = 400)]_vars

\* C14: a make-call or assign-load request submits at most one request to
\* the voice provider; when the provider answers it with a transport error
\* or a non-success status nothing further is submitted and the caller is
\* answered with 500.
C14_OneSubmissionFailureIs500 ==
    [][(Handled("make_call") \/ Handled("assign_load"))
       => \/ vapi_calls' = vapi_calls
          \/ /\ OneRowAdded(vapi_calls, vapi_calls')
             /\ (Last(vapi_calls').answer # "created") = (resp'.code = 500)
             /\ (Last(vapi_calls').answer = "created") = (resp'.code = 200)]_vars

\* both entry points have submitted a call that failed, one by a transport
\* error and one by a non-success status
C14_Witness ==
    /\ Len(vapi_calls) = 2
    /\ {vapi_calls[1].answer, vapi_calls[2].answer} = {"status_error", "transport_error"}
    /\ "load_id" \in DOMAIN vapi_calls[1].metadata
    /\ "load_id" \notin DOMAIN vapi_calls[2].metadata
    /\ req.op = "make_call"
    /\ resp.code = 500

\* this step handled a load-assignment webhook that resolved a driver
AssignmentEvent ==
    /\ Handled("vapi_webhook")
    /\ IsHandled(req'.body)
    /\ FuncName(req'.body) = "updateLoadAssignment"
    /\ resolved' # None

\* the load_id of the call metadata of a webhook body, or None
MetadataLoadId(body) == Get(Get(CallData(body), "metadata", EmptyDict), "load_id", None)

\* the number of calls of the store function of the given name
Calls(ws, name) == Cardinality({i \in DOMAIN ws : ws[i] = name})

\* C15 as stated: every load-assignment webhook that resolves a driver
\* issues exactly one load status write and exactly one audit-log write,
\* also when the call metadata carry no load_id.
C15_OneStatusWriteOneLogWrite ==
    [][AssignmentEvent
       => /\ Calls(writes', "update_load_assignment_status") = 1
          /\ Calls(writes', "create_load_assignment_log") = 1]_vars

\* C15: every load-assignment webhook that resolves a driver issues exactly
\* one audit-log write, a call_logs row with call_type 'load_assignment'
\* when the store accepts it, and before it exactly one load status write
\* when the call metadata carry a load_id, none when they carry none.
C15_OneLogWriteStatusWriteIfLoadId ==
    [][AssignmentEvent
       => /\ writes' = IF Truthy(MetadataLoadId(req'.body))
                       THEN <<"update_load_assignment_status",
                              "create_load_assignment_log">>
                       ELSE <<"create_load_assignment_log">>
          /\ ~Truthy(MetadataLoadId(req'.body)) => loads' = loads
          /\ IF "call_logs" \in failed' THEN call_logs' = call_logs
             ELSE /\ OneRowAdded(call_logs, call_logs')
                  /\ Last(call_logs').call_type = "load_assignment"
                  /\ Last(call_logs').driver_id = resolved'
                  /\ Last(call_logs').load_id = MetadataLoadId(req'.body)]_vars

\* a load-assignment webhook without load_id was logged and wrote no status
C15_Witness ==
    /\ req.op = "vapi_webhook"
    /\ FuncName(req.body) = "updateLoadAssignment"
    /\ MetadataLoadId(req.body) = None
    /\ resolved = "d1"
    /\ writes = <<"create_load_assignment_log">>
    /\ Len(call_logs) = 1
    /\ call_logs[1].call_type = "load_assignment"
    /\ call_logs[1].load_id = None
    /\ loads["l1"].driver_response = None

\* C16: in every webhook mutation branch (load-assignment, updateLoadStatus
\* and the deprecated status-update names) a failure of the status write
\* does not prevent the call-log write from being attempted, and a failure
\* of the call-log write leaves the applied status write in place.
C16_StatusAndLogWritesIndependent ==
    [][(/\ Handled("vapi_webhook")
        /\ IsHandled(req'.body)
        /\ resolved' # None)
       => /\ (failed' \cap {"drivers", "driver_status", "loads"} # {})
             => \E i \in DOMAIN writes' :
                    writes'[i] \in {"create_call_log", "create_load_assignment_log"}
          /\ (failed' = {"call_logs"} /\ FuncName(req'.body) # "updateLoadAssignment")
             => /\ OneRowAdded(driver_status, driver_status')
                /\ Last(driver_status').driver_id = resolved'
                /\ drivers'[resolved'].is_loaded = Last(driver_status').is_loaded]_vars

\* request r was answered with success
Succeeded(r) == inflight[r].pc = "done" /\ inflight[r].code = 200

\* the requests whose update of load L was applied, and the last of them
Writers(L) == {r \in DOMAIN inflight : inflight[r].seq > 0 /\ inflight[r].body.load_id = L}
LastWriter(L) ==
    CHOOSE r \in Writers(L) : \A s \in Writers(L) : inflight[s].seq <= inflight[r].seq

\* the calls for load L that the provider created
CreatedCallsFor(L) ==
    {i \in DOMAIN vapi_calls : /\ Get(vapi_calls[i].metadata, "load_id", None) = L
                               /\ vapi_calls[i].answer = "created"}

\* C17: nothing in assign_load serializes two requests for the same
\* available load that run in different worker processes: when two such
\* requests have both been answered with success, both found the load
\* 'available', both wrote status 'assigned', both had a call created by the
\* voice provider, and the load holds the assigned_driver_id of the request
\* that wrote last (the witness shows that this interleaving exists).
C17_BothSucceedLastWriterWins ==
    \A r, s \in DOMAIN inflight :
        (/\ r # s
         /\ Succeeded(r) /\ Succeeded(s)
         /\ inflight[r].body.load_id = inflight[s].body.load_id)
        => LET L == inflight[r].body.load_id
           IN  /\ inflight[r].worker # inflight[s].worker
               /\ LoadIsAvailable(inflight[r].load) /\ LoadIsAvailable(inflight[s].load)
               /\ {r, s} \subseteq Writers(L)
               /\ Cardinality(CreatedCallsFor(L)) >= 2
               /\ loads[L].status = "assigned"
               /\ loads[L].assigned_driver_id = inflight[LastWriter(L)].body.driver_id

\* two requests for load l1, for drivers d1 and d2, were both answered with
\* success; the first one wrote last and the load is assigned to its driver
C17_Witness ==
    /\ Len(inflight) >= 2
    /\ Succeeded(1) /\ Succeeded(2)
    /\ inflight[1].body = [driver_id |-> "d1", load_id |-> "l1"]
    /\ inflight[2].body = [driver_id |-> "d2", load_id |-> "l1"]
    /\ inflight[1].seq > inflight[2].seq
    /\ Len(vapi_calls) = 2
    /\ loads["l1"].assigned_driver_id = "d1"
    /\ drivers["d1"].is_loaded /\ drivers["d2"].is_loaded

\* the 'tool-calls' event that differs from a 'function-call' body only in
\* carrying the name and the parameters in the first element of toolCalls
ToolCallsTwin(body) ==
    LET m  == body.message
        fc == m.functionCall
        f  == (IF "name" \in DOMAIN fc THEN "name" :> fc.name ELSE EmptyDict)
              @@ (IF "parameters" \in DOMAIN fc THEN "arguments" :> fc.parameters
                  ELSE EmptyDict)
        rest == [k \in DOMAIN m \ {"type", "functionCall"} |-> m[k]]
    IN  [body EXCEPT !.message =
             ("type" :> "tool-calls") @@ ("toolCalls" :> <<[function |-> f]>>) @@ rest]

\* the 'function-call' event that differs from a 'tool-calls' body only in
\* carrying the name and the arguments in functionCall
FunctionCallTwin(body) ==
    LET m  == body.message
        f  == m.toolCalls[1].function
        fc == (IF "name" \in DOMAIN f THEN "name" :> f.name ELSE EmptyDict)
              @@ (IF "arguments" \in DOMAIN f THEN "parameters" :> f.arguments
                  ELSE EmptyDict)
        rest == [k \in DOMAIN m \ {"type", "toolCalls"} |-> m[k]]
    IN  [body EXCEPT !.message =
             ("type" :> "function-call") @@ ("functionCall" :> fc) @@ rest]

\* the handler, given the body, can produce the writes and the answer of this step
SameWritesFor(body) ==
    \E fail \in FailSets :
        \E r \in vapi_webhook_handler(Store, body, fail) :
            /\ r.st.drivers = drivers'
            /\ r.st.loads = loads'
            /\ r.st.driver_status = driver_status'
            /\ r.st.call_logs = call_logs'
            /\ r.st.writes = writes'
            /\ r.st.failed = failed'
            /\ r.driver_id = resolved'
            /\ r.resp = resp'

IsFunctionCallShape(body) ==
    /\ "message" \in DOMAIN body
    /\ Get(body.message, "type", None) = "function-call"
    /\ "functionCall" \in DOMAIN body.message
    /\ "toolCalls" \notin DOMAIN body.message

IsToolCallsShape(body) ==
    /\ "message" \in DOMAIN body
    /\ Get(body.message, "type", None) = "tool-calls"
    /\ "toolCalls" \in DOMAIN body.message
    /\ "functionCall" \notin DOMAIN body.message

\* C18: a 'function-call' event and the 'tool-calls' event that carries the
\* same name and the same values (under arguments) in the first element of
\* toolCalls, and is otherwise identical, lead from the same store to the
\* same writes and the same answer; a 'tool-calls' event whose toolCalls
\* list is empty writes nothing.
C18_BothShapesSameWrites ==
    [][Handled("vapi_webhook")
       => /\ IsFunctionCallShape(req'.body) => SameWritesFor(ToolCallsTwin(req'.body))
          /\ (IsToolCallsShape(req'.body) /\ req'.body.message.toolCalls # <<>>)
             => SameWritesFor(FunctionCallTwin(req'.body))
          /\ (IsToolCallsShape(req'.body) /\ req'.body.message.toolCalls = <<>>)
             => (UNCHANGED store /\ writes' = <<>>)]_vars

\* a 'tool-calls' event has updated the driver and added a call_logs row
\* built from the arguments of its first tool call
C18_Witness ==
    /\ req.op = "vapi_webhook"
    /\ IsToolCallsShape(req.body)
    /\ FuncName(req.body) = "updateLoadStatus"
    /\ writes = <<"update_driver_status", "create_call_log">>
    /\ failed = {}
    /\ drivers["d1"].current_location = "Dallas, TX"
    /\ call_logs # <<>>
    /\ Last(call_logs).is_loaded

LoadStatuses == {"available", "assigned", "confirmed", "pending"}

\* C19: a load-assignment webhook that resolves a driver and whose metadata
\* carry the id of a load L sets, when the store accepts the write, L's
\* status to 'confirmed' for the reported status 'accepted', to 'available'
\* for 'rejected' and to 'pending' for any other or missing status,
\* whatever L's status was and whoever L's assigned driver is, and leaves
\* assigned_driver_id as it was; and the status of every load is always one
\* of available, assigned, confirmed, pending.
C19_WebhookStatusMapping ==
    /\ [](\A l \in DOMAIN loads : loads[l].status \in LoadStatuses)
    /\ [][(/\ AssignmentEvent
           /\ MetadataLoadId(req'.body) \in DOMAIN loads
           /\ "loads" \notin failed')
          => LET L == MetadataLoadId(req'.body)
                 reported == Get(Get(FuncCall(req'.body, EventType(req'.body)),
                                     "parameters", EmptyDict), "status", None)
             IN  /\ loads'[L].status = CASE reported = "accepted" -> "confirmed"
                                         [] reported = "rejected" -> "available"
                                         [] OTHER -> "pending"
                 /\ loads'[L].assigned_driver_id = loads[L].assigned_driver_id
                 /\ \A l \in DOMAIN loads \ {L} : loads'[l] = loads[l]]_vars

\* load l1, assigned to d1, was confirmed by a webhook that resolved d2
C19_Witness ==
    /\ req.op = "vapi_webhook"
    /\ FuncName(req.body) = "updateLoadAssignment"
    /\ MetadataLoadId(req.body) = "l1"
    /\ resolved = "d2"
    /\ loads["l1"].assigned_driver_id = "d1"
    /\ loads["l1"].status = "confirmed"
    /\ loads["l1"].driver_response = "accepted"

\* C20: in assign_load the assignment is written before the call is
\* submitted and is not undone: when the builder then fails, by the missing
\* routing configuration, a transport error or a non-success status, the
\* request is answered with an error while the load is 'assigned' to the
\* driver of the request and that driver has is_loaded true.
C20_FailedCallKeepsAssignment ==
    [][(/\ Handled("assign_load")
        /\ Get(req'.body, "driver_id", None) \in DOMAIN drivers
        /\ Get(req'.body, "load_id", None) \in DOMAIN loads
        /\ LoadIsAvailable(loads[req'.body.load_id])
        /\ failed' = {}
        /\ \/ ~HasRouting(routing)
           \/ /\ vapi_calls' # vapi_calls
              /\ Last(vapi_calls').answer # "created")
       => /\ resp'.code >= 400
          /\ resp'.detail \in {"ValueError", "HTTPError"}
          /\ writes' = <<"assign_load_to_driver">>
          /\ loads'[req'.body.load_id].status = "assigned"
          /\ loads'[req'.body.load_id].assigned_driver_id = req'.body.driver_id
          /\ drivers'[req'.body.driver_id].is_loaded]_vars

\* the call for l1 and d1 failed after submission; l1 is assigned to d1
C20_Witness ==
    /\ req.op = "assign_load"
    /\ req.body = [driver_id |-> "d1", load_id |-> "l1"]
    /\ resp.code = 500
    /\ resp.detail = "HTTPError"
    /\ vapi_calls # <<>>
    /\ Last(vapi_calls).answer = "transport_error"
    /\ Last(vapi_calls).metadata.driver_id = "d1"
    /\ loads["l1"].status = "assigned"
    /\ loads["l1"].assigned_driver_id = "d1"
    /\ drivers["d1"].is_loaded

====
